---- MODULE Spec2Model ----
(***************************************************************************)
(* Model of src/cost_calculator_app.py: the cost model calculate_costs and *)
(* the part of main() that derives its arguments from the sidebar widgets. *)
(*                                                                         *)
(* Numbers.  Python's true division yields a real-valued result; the model *)
(* carries every real value as an exact fraction <<numerator, denominator>>*)
(* in lowest terms with a positive denominator.  int(x) is truncation      *)
(* toward zero.  A division by zero yields the value NaR, which every      *)
(* later operation propagates and which makes the call raise               *)
(* ZeroDivisionError instead of returning.  The rounding of binary64 is    *)
(* not modelled: every quotient, product and sum is the exact one.         *)
(***************************************************************************)
EXTENDS Integers, FiniteSets

VARIABLES pc, widgets, args, result

vars == <<pc, widgets, args, result>>

(***************************************************************************)
(* Exact fractions.                                                        *)
(***************************************************************************)
RECURSIVE GCD(_, _)
GCD(a, b) ==
    IF b = 0 THEN a ELSE GCD(b, a % b)

Abs(n) ==
    IF n < 0 THEN -n ELSE n

NaR ==
    <<0, 0>>

IsNaR(x) ==
    x[2] = 0

Norm(n, d) ==
    LET g == GCD(Abs(n), d)
    IN  <<n \div g, d \div g>>

Rat(n) ==
    <<n, 1>>

Frac(n, d) ==
    Norm(n, d)

Zero ==
    Rat(0)

Add(x, y) ==
    IF IsNaR(x) \/ IsNaR(y) THEN NaR
    ELSE LET g == GCD(x[2], y[2])
         IN  Norm(x[1] * (y[2] \div g) + y[1] * (x[2] \div g), x[2] * (y[2] \div g))

Neg(x) ==
    <<-x[1], x[2]>>

Sub(x, y) ==
    IF IsNaR(x) \/ IsNaR(y) THEN NaR ELSE Add(x, Neg(y))

Mul(x, y) ==
    IF IsNaR(x) \/ IsNaR(y) THEN NaR
    ELSE LET g1 == GCD(Abs(x[1]), y[2])
             g2 == GCD(Abs(y[1]), x[2])
         IN  IF x[1] = 0 \/ y[1] = 0 THEN Zero
             ELSE <<(x[1] \div g1) * (y[1] \div g2), (x[2] \div g2) * (y[2] \div g1)>>

\* x / y; a zero divisor is Python's ZeroDivisionError.
Div(x, y) ==
    IF IsNaR(x) \/ IsNaR(y) \/ y[1] = 0 THEN NaR
    ELSE IF y[1] > 0 THEN Mul(x, <<y[2], y[1]>>)
         ELSE Mul(x, <<-y[2], -y[1]>>)

Less(x, y) ==
    x[1] * y[2] < y[1] * x[2]

Leq(x, y) ==
    x[1] * y[2] <= y[1] * x[2]

\* Python's max(0, x).
Max0(x) ==
    IF IsNaR(x) THEN NaR ELSE IF Less(x, Zero) THEN Zero ELSE x

\* Python's int(x): truncation toward zero.
int(x) ==
    IF x[1] >= 0 THEN x[1] \div x[2] ELSE -((-x[1]) \div x[2])

(***************************************************************************)
(* calculate_costs.  a is the record of its eleven arguments; the integer  *)
(* arguments are integers, the real-valued ones fractions.  Each           *)
(* assignment of the body is one operator, named after the local variable  *)
(* it assigns and applied to the values its right-hand side reads.         *)
(***************************************************************************)
modules_per_glab ==
    12

annual_glab_capacity(a) ==
    Mul(a.monthly_glab_capacity, Rat(12))

total_optical_modules(a) ==
    a.target_glab_sales * modules_per_glab

\* Variant: the sales target is divided instead of the module count.
monthly_optical_modules_of_sales(a, total) ==
    Div(Rat(a.target_glab_sales), Rat(a.production_period_months))

monthly_optical_modules(a, total) ==
    Div(Rat(total), Rat(a.production_period_months))

\* Variant: the quantity is divided by the 12 modules of a unit.
daily_optical_modules_by_12(monthly) ==
    Div(monthly, Rat(12))

daily_optical_modules(monthly) ==
    Div(monthly, Rat(30))

required_glab_per_month(a) ==
    Div(Rat(a.target_glab_sales), Rat(a.production_period_months))

\* Variant: the comparison is strict.
production_feasible_strict(a, required) ==
    Less(required, a.monthly_glab_capacity)

production_feasible(a, required) ==
    Leq(required, a.monthly_glab_capacity)

capacity_shortage(a, annual_capacity) ==
    Max0(Sub(Rat(a.target_glab_sales),
             Div(Mul(annual_capacity, Rat(a.production_period_months)), Rat(12))))

optical_quartz_cost_per_block(a) ==
    Mul(a.optical_quartz_price, Rat(16))

optical_block_manufacturing_cost(a, quartz_cost) ==
    Add(Add(a.optical_block_price, quartz_cost), a.other_parts_price)

total_material_cost(manufacturing_cost, total) ==
    Mul(manufacturing_cost, Rat(total))

total_labor_cost(a) ==
    Mul(Mul(a.annual_salary, Rat(a.required_workers)),
        Div(Rat(a.production_period_months), Rat(12)))

annual_depreciation(a) ==
    Div(a.initial_setup_cost, Rat(a.depreciation_period_years))

\* Variant: the period's share is taken of the truncated annual amount.
depreciation_cost_of_truncated(a, annual) ==
    Mul(Rat(int(annual)), Div(Rat(a.production_period_months), Rat(12)))

depreciation_cost(a, annual) ==
    Mul(annual, Div(Rat(a.production_period_months), Rat(12)))

\* Variant: the depreciation term is left out of the total.
total_production_cost_no_depreciation(material, labor, depreciation) ==
    Add(material, labor)

total_production_cost(material, labor, depreciation) ==
    Add(Add(material, labor), depreciation)

annual_optical_modules(a, total) ==
    Mul(Rat(total), Div(Rat(12), Rat(a.production_period_months)))

annual_revenue(a, annual_modules) ==
    Mul(annual_modules, a.optical_module_price_won)

annual_production_cost(a, material, labor, annual) ==
    Add(Mul(Add(material, labor), Div(Rat(12), Rat(a.production_period_months))),
        annual)

\* Variant: the operands of the subtraction are exchanged.
annual_profit_reversed(revenue, cost) ==
    Sub(cost, revenue)

\* Variant: a loss is reported as no profit.
annual_profit_clamped(revenue, cost) ==
    Max0(Sub(revenue, cost))

annual_profit(revenue, cost) ==
    Sub(revenue, cost)

\* Variant: the guard admits a revenue of zero.
profit_margin_geq(profit, revenue) ==
    IF IsNaR(revenue) THEN NaR
    ELSE IF Leq(Zero, revenue)
         THEN Mul(Div(profit, revenue), Rat(100))
         ELSE Zero

\* Variant: the division is not guarded.
profit_margin_unguarded(profit, revenue) ==
    Mul(Div(profit, revenue), Rat(100))

\* The conditional expression evaluates the division only when the
\* untruncated revenue is positive.
profit_margin(profit, revenue) ==
    IF IsNaR(revenue) THEN NaR
    ELSE IF Less(Zero, revenue)
         THEN Mul(Div(profit, revenue), Rat(100))
         ELSE Zero

\* The values of the local variables when the return statement is reached.
Locals(a) ==
    LET capacity == annual_glab_capacity(a)
        total == total_optical_modules(a)
        monthly == monthly_optical_modules(a, total)
        required == required_glab_per_month(a)
        quartz_cost == optical_quartz_cost_per_block(a)
        manufacturing_cost == optical_block_manufacturing_cost(a, quartz_cost)
        material == total_material_cost(manufacturing_cost, total)
        labor == total_labor_cost(a)
        annual == annual_depreciation(a)
        depreciation == depreciation_cost(a, annual)
        annual_modules == annual_optical_modules(a, total)
        revenue == annual_revenue(a, annual_modules)
        cost == annual_production_cost(a, material, labor, annual)
        profit == annual_profit(revenue, cost)
    IN  [annual_glab_capacity |-> capacity,
         total_optical_modules |-> total,
         monthly_optical_modules |-> monthly,
         daily_optical_modules |-> daily_optical_modules(monthly),
         production_feasible |-> production_feasible(a, required),
         capacity_shortage |-> capacity_shortage(a, capacity),
         optical_block_manufacturing_cost |-> manufacturing_cost,
         total_material_cost |-> material,
         total_labor_cost |-> labor,
         total_production_cost |-> total_production_cost(material, labor, depreciation),
         annual_depreciation |-> annual,
         depreciation_cost |-> depreciation,
         annual_revenue |-> revenue,
         annual_production_cost |-> cost,
         annual_profit |-> profit,
         profit_margin |-> profit_margin(profit, revenue)]

\* Some expression of the body divided by zero.
Raises(v) ==
    \/ IsNaR(v.monthly_optical_modules)
    \/ IsNaR(v.capacity_shortage)
    \/ IsNaR(v.total_production_cost)
    \/ IsNaR(v.annual_profit)
    \/ IsNaR(v.profit_margin)

\* The dictionary the return statement builds.
Return(v) ==
    [status |-> "returned",
     annual_glab_capacity |-> v.annual_glab_capacity,
     total_optical_modules |-> v.total_optical_modules,
     monthly_optical_modules |-> int(v.monthly_optical_modules),
     daily_optical_modules |-> int(v.daily_optical_modules),
     production_feasible |-> v.production_feasible,
     capacity_shortage |-> int(v.capacity_shortage),
     optical_block_manufacturing_cost |-> int(v.optical_block_manufacturing_cost),
     total_material_cost |-> int(v.total_material_cost),
     total_labor_cost |-> int(v.total_labor_cost),
     total_production_cost |-> int(v.total_production_cost),
     annual_depreciation |-> int(v.annual_depreciation),
     depreciation_cost |-> int(v.depreciation_cost),
     annual_revenue |-> int(v.annual_revenue),
     annual_production_cost |-> int(v.annual_production_cost),
     annual_profit |-> int(v.annual_profit),
     profit_margin |-> v.profit_margin]

calculate_costs(a) ==
    LET v == Locals(a)
    IN  IF Raises(v) THEN [status |-> "ZeroDivisionError"] ELSE Return(v)

\* The divisors of the divisions a call with arguments a performs: the
\* period and the depreciation period always, the untruncated revenue only
\* when the guard of the conditional expression lets the division happen.
Divisors(a) ==
    LET revenue == annual_revenue(a, annual_optical_modules(a, total_optical_modules(a)))
    IN  {Rat(a.production_period_months), Rat(a.depreciation_period_years), Rat(12), Rat(30)}
            \cup (IF ~IsNaR(revenue) /\ Less(Zero, revenue) THEN {revenue} ELSE {})

(***************************************************************************)
(* Bounds of the model, and the values each argument is drawn from.        *)
(***************************************************************************)
MaxMonths == 5
MaxSales == 2
MaxYears == 2
MaxSalary == 2
MaxSetup == 2
MaxSetPriceTenths == 2

\* The widget admits 1..60; 12 is its default and 60 its maximum.
MaxPeriodMonths == 60
DefaultPeriodMonths == 12

Months ==
    (1..MaxMonths) \cup {DefaultPeriodMonths, MaxPeriodMonths}

\* 13 units in 5 months is a plan with a fractional monthly output above 30.
Sales ==
    (1..MaxSales) \cup {13}

Workers ==
    {1, 2}

Years ==
    1..MaxYears

Salaries ==
    {Rat(n) : n \in 0..MaxSalary}

SetupCosts ==
    {Rat(n) : n \in 0..MaxSetup}

\* Real-valued arguments of a direct call.
Capacities ==
    {Zero, Frac(1, 2), Rat(1)}

BlockPrices ==
    {Zero, Rat(1)}

QuartzPrices ==
    {Zero, Frac(1, 2)}

OtherPrices ==
    {Zero, Frac(1, 8)}

ModulePrices ==
    {Zero, Frac(1, 4), Rat(1)}

\* Integer prices entered in the sidebar.
WidgetPrices ==
    {0, 1}

\* The set price widget: at least 0.1, in steps of 0.1.
SetPrices ==
    {Frac(n, 10) : n \in 1..MaxSetPriceTenths}

\* Every argument record that satisfies the documented constraints.
ValidArgs ==
    [production_period_months : Months,
     target_glab_sales : Sales,
     monthly_glab_capacity : Capacities,
     optical_block_price : BlockPrices,
     optical_quartz_price : QuartzPrices,
     other_parts_price : OtherPrices,
     required_workers : Workers,
     annual_salary : Salaries,
     initial_setup_cost : SetupCosts,
     depreciation_period_years : Years,
     optical_module_price_won : ModulePrices]

\* The values of the sidebar widgets of main().
WidgetValues ==
    [production_period_months : Months,
     target_glab_sales : Sales,
     optical_module_set_price : SetPrices,
     optical_block_price : WidgetPrices,
     optical_quartz_price : WidgetPrices,
     other_parts_price : WidgetPrices,
     required_workers : Workers,
     annual_salary : 0..MaxSalary,
     initial_setup_cost : 0..MaxSetup,
     depreciation_period_years : Years]

NoWidgets == [source |-> "none"]
NoArgs == [source |-> "none"]
NoResult == [status |-> "none"]

\* main(): the two values it derives from the widgets.
monthly_glab_capacity(w) ==
    Div(Rat(w.target_glab_sales), Rat(w.production_period_months))

optical_module_price_won(w) ==
    Div(Mul(w.optical_module_set_price, Rat(10000000)), Rat(12))

\* main(): the arguments of its call of calculate_costs.
MainArgs(w) ==
    [production_period_months |-> w.production_period_months,
     target_glab_sales |-> w.target_glab_sales,
     monthly_glab_capacity |-> monthly_glab_capacity(w),
     optical_block_price |-> Rat(w.optical_block_price),
     optical_quartz_price |-> Rat(w.optical_quartz_price),
     other_parts_price |-> Rat(w.other_parts_price),
     required_workers |-> w.required_workers,
     annual_salary |-> Rat(w.annual_salary),
     initial_setup_cost |-> Rat(w.initial_setup_cost),
     depreciation_period_years |-> w.depreciation_period_years,
     optical_module_price_won |-> optical_module_price_won(w)]

(***************************************************************************)
(* The state machine.  A run of the script reads the widgets and calls     *)
(* calculate_costs once; a direct call passes any valid arguments.         *)
(***************************************************************************)
Init ==
    /\ result = NoResult
    /\ \/ /\ pc = "main"
          /\ widgets \in WidgetValues
          /\ args = NoArgs
       \/ /\ pc = "call"
          /\ widgets = NoWidgets
          /\ args \in ValidArgs

\* One run of main() up to the call's return.
Main ==
    /\ pc = "main"
    /\ args' = MainArgs(widgets)
    /\ result' = calculate_costs(args')
    /\ pc' = "done"
    /\ UNCHANGED widgets

\* One direct call of calculate_costs.
Calculate ==
    /\ pc = "call"
    /\ result' = calculate_costs(args)
    /\ pc' = "done"
    /\ UNCHANGED <<widgets, args>>

Next ==
    \/ Main
    \/ Calculate

Spec ==
    Init /\ [][Next]_vars

Done ==
    pc = "done"

Returned ==
    pc = "done" /\ result.status = "returned"

(***************************************************************************)
(* Properties of calculate_costs and of main()'s call of it.               *)
(***************************************************************************)
OutputNames ==
    {"annual_glab_capacity", "total_optical_modules", "monthly_optical_modules",
     "daily_optical_modules", "production_feasible", "capacity_shortage",
     "optical_block_manufacturing_cost", "total_material_cost", "total_labor_cost",
     "total_production_cost", "annual_depreciation", "depreciation_cost",
     "annual_revenue", "annual_production_cost", "annual_profit", "profit_margin"}

\* The call's result with only the module price changed to price.
AtPrice(price) ==
    calculate_costs([args EXCEPT !.optical_module_price_won = price])

\* Every module price of the model, of direct calls and of main().
AllModulePrices ==
    ModulePrices \cup {Div(Mul(sp, Rat(10000000)), Rat(12)) : sp \in SetPrices}

\* C1, as stated: whenever the returned (truncated) annual_revenue is 0,
\* the returned profit_margin is 0.
C1_ReturnedRevenueZeroMarginZero ==
    Done => /\ result.status = "returned"
            /\ (result.annual_revenue = 0 => result.profit_margin = Zero)

\* C1, amended: the call returns without a division fault; when the
\* untruncated revenue is 0, which for valid arguments is exactly when
\* optical_module_price_won is 0, the returned annual_revenue and
\* profit_margin are both 0; and a returned annual_revenue of 0 with a
\* non-zero profit_margin comes only from a revenue strictly between 0 and 1.
C1_UntruncatedRevenueZeroMarginZero ==
    Done => LET revenue == Locals(args).annual_revenue
            IN  /\ result.status = "returned"
                /\ (revenue = Zero <=> args.optical_module_price_won = Zero)
                /\ (args.optical_module_price_won = Zero
                        => result.annual_revenue = 0 /\ result.profit_margin = Zero)
                /\ (result.annual_revenue = 0 /\ result.profit_margin # Zero
                        => Less(Zero, revenue) /\ Less(revenue, Rat(1)))

C1_Witness ==
    /\ Returned
    /\ args.optical_module_price_won = Zero
    /\ result.annual_production_cost > 0
    /\ result.profit_margin = Zero

\* C2: for valid arguments the call returns all 16 outputs and raises
\* nothing: every division it performs has a non-zero divisor.
C2_ReturnsAllOutputs ==
    Done => /\ result.status = "returned"
            /\ DOMAIN result = OutputNames \cup {"status"}
            /\ Cardinality(OutputNames) = 16
            /\ \A d \in Divisors(args) : d[1] # 0

C2_Witness ==
    /\ Returned
    /\ args.production_period_months = 1
    /\ args.depreciation_period_years = 1
    /\ args.optical_module_price_won = Zero
    /\ args.monthly_glab_capacity = Zero

\* C3, as stated: the returned total_production_cost is the sum of the
\* returned total_material_cost, total_labor_cost and depreciation_cost.
C3_TotalIsSumOfReturned ==
    Returned => result.total_production_cost =
                    result.total_material_cost + result.total_labor_cost
                        + result.depreciation_cost

\* C3, amended: the returned total_production_cost is never less than the
\* sum of the three returned components and exceeds it by at most 2.
C3_TotalWithinTwoOfSum ==
    Returned => result.total_production_cost
                   - (result.total_material_cost + result.total_labor_cost
                          + result.depreciation_cost) \in {0, 1, 2}

C3_Witness ==
    /\ Returned
    /\ result.total_production_cost =
           result.total_material_cost + result.total_labor_cost
               + result.depreciation_cost + 2

\* C4, as stated: when target_glab_sales / production_period_months exceeds
\* monthly_glab_capacity, production_feasible is false and the returned
\* capacity_shortage is greater than 0.
C4_InfeasibleHasShortage ==
    Returned /\ Less(args.monthly_glab_capacity,
                     Frac(args.target_glab_sales, args.production_period_months))
        => result.production_feasible = FALSE /\ result.capacity_shortage > 0

\* C5: raising only optical_module_price_won never lowers the returned
\* annual_revenue nor the returned annual_profit.
C5_PriceMonotone ==
    Returned =>
        \A price \in AllModulePrices :
            Leq(args.optical_module_price_won, price)
                => LET higher == AtPrice(price)
                   IN  /\ higher.status = "returned"
                       /\ higher.annual_revenue >= result.annual_revenue
                       /\ higher.annual_profit >= result.annual_profit

C5_Witness ==
    /\ Returned
    /\ result.annual_profit < 0
    /\ \E price \in AllModulePrices :
           /\ Less(args.optical_module_price_won, price)
           /\ AtPrice(price).annual_profit > result.annual_profit
           /\ AtPrice(price).annual_profit < 0

\* C6: the returned total_optical_modules is target_glab_sales * 12 and the
\* returned monthly_optical_modules is its integer quotient by
\* production_period_months; with a period of 1 the two are equal.
C6_MonthlyIsFloorOfTotal ==
    Returned =>
        /\ result.total_optical_modules = args.target_glab_sales * 12
        /\ result.monthly_optical_modules =
               result.total_optical_modules \div args.production_period_months
        /\ (args.production_period_months = 1
                => result.monthly_optical_modules = result.total_optical_modules)

C6_Witness ==
    /\ Returned
    /\ result.total_optical_modules % args.production_period_months # 0
    /\ result.monthly_optical_modules > 0

\* C7: the returned daily_optical_modules is the integer quotient of the
\* returned monthly_optical_modules by 30.
C7_DailyIsFloorOfMonthly ==
    Returned => result.daily_optical_modules = result.monthly_optical_modules \div 30

C7_Witness ==
    /\ Returned
    /\ Locals(args).monthly_optical_modules[2] # 1
    /\ result.daily_optical_modules > 0

C9_ProfitIsRevenueMinusCost ==
    Returned => result.annual_profit =
                    result.annual_revenue - result.annual_production_cost

\* C9, amended: the returned annual_profit differs from the returned
\* annual_revenue minus the returned annual_production_cost by at most 1:
\* it is the same or 1 lower when the profit is positive, the same or 1
\* higher when it is negative.
C9_ProfitWithinOne ==
    Returned =>
        LET d == result.annual_profit
                     - (result.annual_revenue - result.annual_production_cost)
        IN  /\ d \in {-1, 0, 1}
            /\ (d = -1 => result.annual_profit >= 0)
            /\ (d = 1 => result.annual_profit <= 0)

C9_Witness ==
    /\ Returned
    /\ result.annual_profit < 0
    /\ result.annual_profit =
           result.annual_revenue - result.annual_production_cost + 1

\* C10: when main() derives monthly_glab_capacity as target_glab_sales /
\* production_period_months, the call returns production_feasible = true
\* and capacity_shortage = 0.
C10_MainAlwaysFeasible ==
    Done /\ widgets # NoWidgets
        => /\ result.status = "returned"
           /\ args.monthly_glab_capacity =
                  Frac(widgets.target_glab_sales, widgets.production_period_months)
           /\ result.production_feasible = TRUE
           /\ result.capacity_shortage = 0

C10_Witness ==
    /\ Returned
    /\ widgets # NoWidgets
    /\ args.monthly_glab_capacity[2] # 1
    /\ result.production_feasible = TRUE
    /\ result.capacity_shortage = 0

====
